---- MODULE Spec2Model ----
(***************************************************************************)
(* clean-extract: extraction of zip/rar/iso archives into sibling          *)
(* directories, priority-based cleaning of the extracted tree into         *)
(* `.remove` directories, and collection of the manifest.                  *)
(*                                                                         *)
(* A string is a sequence of one-character strings, a path is a sequence   *)
(* of path elements (strings), so that filepath.Ext, strings.TrimSuffix,   *)
(* strings.ToLower, filepath.Join and the lexical order of filepath.Walk   *)
(* are computed as the Go code computes them.                              *)
(***************************************************************************)
EXTENDS Integers, Sequences, FiniteSets, TLC

\* --------------------------------------------------------------------------
\* Bounds of the model
\* --------------------------------------------------------------------------
\* most regular files in an initial tree handed to the cleaner
MaxFiles == 4
\* most cleanDirectory calls on one tree
MaxPasses == 2
\* most archives under the root directory of a run
MaxArchives == 2
\* most moveToRemove calls in a sequence of calls
MaxMoves == 3

\* F applied to the value of v, with v evaluated once
Bind(v, F(_)) == CHOOSE r \in { F(x) : x \in {v} } : TRUE

\* --------------------------------------------------------------------------
\* Characters and strings
\* --------------------------------------------------------------------------
\* the characters used by the model, in ASCII order
Chars ==
    << ".", "0", "1", "2", "3", "4", "5", "6", "7", "8", "9",
       "A", "B", "C", "D", "E", "F", "G", "H", "I", "J", "K", "L", "M",
       "N", "O", "P", "Q", "R", "S", "T", "U", "V", "W", "X", "Y", "Z",
       "_",
       "a", "b", "c", "d", "e", "f", "g", "h", "i", "j", "k", "l", "m",
       "n", "o", "p", "q", "r", "s", "t", "u", "v", "w", "x", "y", "z" >>

\* the rank of a character in that order
OrdOf == [c \in { Chars[i] : i \in 1..Len(Chars) } |-> CHOOSE i \in 1..Len(Chars) : Chars[i] = c]
Ord(c) == OrdOf[c]

\* unicode.ToLower on one character: 'A'..'Z' are Chars[12..37], 'a' is Chars[39]
ToLowerCh(c) == IF Ord(c) >= 12 /\ Ord(c) <= 37 THEN Chars[Ord(c) + 27] ELSE c

\* strings.ToLower
ToLower(s) == [i \in 1..Len(s) |-> ToLowerCh(s[i])]

\* strings.HasSuffix / strings.HasPrefix
HasSuffix(s, suf) ==
    /\ Len(suf) <= Len(s)
    /\ SubSeq(s, Len(s) - Len(suf) + 1, Len(s)) = suf

HasPrefix(s, pre) ==
    /\ Len(pre) <= Len(s)
    /\ SubSeq(s, 1, Len(pre)) = pre

\* strings.TrimSuffix / strings.TrimPrefix
TrimSuffix(s, suf) ==
    IF HasSuffix(s, suf) THEN SubSeq(s, 1, Len(s) - Len(suf)) ELSE s

TrimPrefix(s, pre) ==
    IF HasPrefix(s, pre) THEN SubSeq(s, Len(pre) + 1, Len(s)) ELSE s

\* the byte-wise order of Go strings (s < t)
RECURSIVE StrLess(_, _)
StrLess(s, t) ==
    IF t = <<>> THEN FALSE
    ELSE IF s = <<>> THEN TRUE
    ELSE IF Ord(Head(s)) # Ord(Head(t)) THEN Ord(Head(s)) < Ord(Head(t))
    ELSE StrLess(Tail(s), Tail(t))

\* strconv.Itoa for n >= 0, as fmt.Sprintf("%d") prints it
RECURSIVE Itoa(_)
Itoa(n) ==
    IF n < 10 THEN << Chars[n + 2] >>
    ELSE Itoa(n \div 10) \o << Chars[(n % 10) + 2] >>

\* filepath.Ext on one path element: the suffix that starts at the last dot
ExtOfName(name) ==
    LET dots == { i \in 1..Len(name) : name[i] = "." }
    IN  IF dots = {} THEN <<>>
        ELSE LET last == CHOOSE i \in dots : \A j \in dots : j <= i
             IN  SubSeq(name, last, Len(name))

\* --------------------------------------------------------------------------
\* Paths
\* --------------------------------------------------------------------------
\* filepath.Base, filepath.Dir, filepath.Ext of a path with at least one element
Base(p) == p[Len(p)]
Dir(p) == SubSeq(p, 1, Len(p) - 1)
Ext(p) == ExtOfName(Base(p))

\* filepath.Join(dir, elem) for one element: an empty element is dropped,
\* and Clean resolves "." and ".."
Join(dir, elem) ==
    IF elem = <<>> \/ elem = << "." >> THEN dir
    ELSE IF elem = << ".", "." >> THEN Dir(dir)
    ELSE Append(dir, elem)

\* p lies strictly below the directory d
IsUnder(p, d) == Len(p) > Len(d) /\ SubSeq(p, 1, Len(d)) = d

RemoveName == << ".", "r", "e", "m", "o", "v", "e" >>

\* the file lies directly in a `.remove` directory
InRemoveDir(p) == Len(p) >= 2 /\ p[Len(p) - 1] = RemoveName

\* --------------------------------------------------------------------------
\* The file system: fs.files maps the path of every regular file to the
\* identity of its content, fs.dirs is the set of directories
\* --------------------------------------------------------------------------
IsFile(fs, p) == p \in DOMAIN fs.files
IsDir(fs, p) == p \in fs.dirs
Exists(fs, p) == IsFile(fs, p) \/ IsDir(fs, p)

\* os.ReadDir: the entries of a directory
Entries(fs, d) == { p \in (DOMAIN fs.files) \cup fs.dirs : Len(p) = Len(d) + 1 /\ Dir(p) = d }

\* a set of paths of one directory as a sequence sorted by name
SortByName(ps) ==
    [i \in 1..Cardinality(ps) |->
        CHOOSE p \in ps : Cardinality({ q \in ps : StrLess(Base(q), Base(p)) }) = i - 1]

\* filepath.Walk: the root, then its entries in lexical order, directories
\* descended into as they are met
RECURSIVE Walk(_, _)
RECURSIVE WalkAll(_, _)
Walk(fs, p) ==
    IF IsDir(fs, p)
    THEN << p >> \o Bind(SortByName(Entries(fs, p)), LAMBDA ps : WalkAll(fs, ps))
    ELSE << p >>
WalkAll(fs, ps) ==
    IF ps = <<>> THEN <<>>
    ELSE Walk(fs, Head(ps)) \o Bind(Tail(ps), LAMBDA rest : WalkAll(fs, rest))

\* os.MkdirAll: fails when an element of the path is a regular file,
\* otherwise creates the directory and its missing ancestors
MkdirAllOk(fs, d) == \A n \in 1..Len(d) : ~IsFile(fs, SubSeq(d, 1, n))
MkdirAll(fs, d) == [fs EXCEPT !.dirs = @ \cup { SubSeq(d, 1, n) : n \in 1..Len(d) }]

\* os.Rename of a regular file onto a path (an existing file there is replaced)
Rename(fs, from, to) ==
    [fs EXCEPT !.files =
        [p \in ((DOMAIN fs.files) \ {from}) \cup {to} |->
            IF p = to THEN fs.files[from] ELSE fs.files[p]]]

\* --------------------------------------------------------------------------
\* Configuration and the extension classifier
\* --------------------------------------------------------------------------
VARIABLES
    config,     \* the loaded Config: KeepExtensions and Priority
    fs,         \* the file system
    root,       \* the directory the cleaner (or the driver) is run on
    passes,     \* number of cleanDirectory calls made so far
    before,     \* the file system as it was when the last operation began
    result,     \* what the last operation returned and logged
    pc,         \* the driver's position in main
    archives,   \* main's archives slice
    idx,        \* index of the archive the driver loop is at
    manifestEntries, \* main's accumulated manifest entries
    csv,        \* the rows of file_manifest.csv, or NoFile while it does not exist
    wg,         \* the counter of the sync.WaitGroup of the concurrent main
    isoSemaphore, \* number of tokens in the isoSemaphore channel
    manifestChan, \* the manifestChan channel: its buffer and whether it is closed
    workers     \* the goroutines started by the concurrent main, one per archive

\* the state of the concurrent main
conc == << wg, isoSemaphore, manifestChan, workers >>

vars == << config, fs, root, passes, before, result, pc, archives, idx, manifestEntries, csv, conc >>

\* the sequential driver and the cleaner start no goroutine
NoGoroutines ==
    /\ wg = 0
    /\ isoSemaphore = 0
    /\ manifestChan = [buf |-> << >>, closed |-> FALSE]
    /\ workers = << >>

\* loadConfig: an absent Priority takes the order of KeepExtensions
loadConfig(keep, prio) ==
    [KeepExtensions |-> keep,
     Priority |-> IF Len(prio) = 0 THEN keep ELSE prio]

\* contains(slice, item)
contains(slice, item) == \E i \in 1..Len(slice) : slice[i] = item

\* getFilePriority(ext): the 0-based index of the first Priority entry that,
\* with a dot put before it, equals the lowercased ext; len(Priority) if none
getFilePriority(ext) ==
    LET e == ToLower(ext)
        hits == { i \in 1..Len(config.Priority) : << "." >> \o config.Priority[i] = e }
    IN  IF hits = {} THEN Len(config.Priority)
        ELSE (CHOOSE i \in hits : \A j \in hits : i <= j) - 1

\* isKeepExtension(ext)
isKeepExtension(ext) ==
    contains(config.KeepExtensions, ToLower(TrimPrefix(ext, << "." >>)))

\* --------------------------------------------------------------------------
\* moveToRemove
\* --------------------------------------------------------------------------
\* moveToRemove without the probing loop: the first destination is taken
\* whether or not it exists
probeNoStat(f, removeDir, baseName, destPath, counter) == destPath

\* the probing loop of moveToRemove: the first of name.ext, name_1.ext,
\* name_2.ext, ... that os.Stat reports as not existing
RECURSIVE probe(_, _, _, _, _)
probe(f, removeDir, baseName, destPath, counter) ==
    IF ~Exists(f, destPath) THEN destPath
    ELSE LET ext == ExtOfName(baseName)
             nameWithoutExt == TrimSuffix(baseName, ext)
         IN  probe(f, removeDir, baseName,
                   Join(removeDir, nameWithoutExt \o << "_" >> \o Itoa(counter) \o ext),
                   counter + 1)

\* moveToRemove with the suffix counter started at 0
moveToRemoveFromZero(st, filePath) ==
    LET dir == Dir(filePath)
        removeDir == Join(dir, RemoveName)
    IN  IF ~MkdirAllOk(st.fs, removeDir) THEN st
        ELSE LET f1 == MkdirAll(st.fs, removeDir)
                 baseName == Base(filePath)
             IN  Bind(probe(f1, removeDir, baseName, Join(removeDir, baseName), 0),
                      LAMBDA destPath :
                          [fs |-> Rename(f1, filePath, destPath),
                           moved |-> Append(st.moved, << filePath, destPath >>)])

\* moveToRemove(filePath) on the state st = [fs, moved]: st.moved is the
\* sequence of "moved file: from -> to" lines written to the log
moveToRemove(st, filePath) ==
    LET dir == Dir(filePath)
        removeDir == Join(dir, RemoveName)
    IN  IF ~MkdirAllOk(st.fs, removeDir) THEN st
        ELSE LET f1 == MkdirAll(st.fs, removeDir)
                 baseName == Base(filePath)
             IN  Bind(probe(f1, removeDir, baseName, Join(removeDir, baseName), 1),
                      LAMBDA destPath :
                          [fs |-> Rename(f1, filePath, destPath),
                           moved |-> Append(st.moved, << filePath, destPath >>)])

\* --------------------------------------------------------------------------
\* cleanDirectory
\* --------------------------------------------------------------------------
\* the group key of a file: filepath.Join(dir, base name without extension)
groupKey(p) == Join(Dir(p), TrimSuffix(Base(p), Ext(p)))

\* step 1: the regular files met by the walk, in walk order
allFilesOf(f, path) == SelectSeq(Walk(f, path), LAMBDA p : ~IsDir(f, p))

\* step 1: fileGroups, each key mapped to its keep-eligible files in walk order
fileGroupsOf(f, path) ==
    Bind(SelectSeq(allFilesOf(f, path), LAMBDA p : isKeepExtension(ToLower(Ext(p)))),
         LAMBDA kept :
             [k \in { groupKey(kept[i]) : i \in 1..Len(kept) } |->
                 SelectSeq(kept, LAMBDA p : groupKey(p) = k)])

\* the nested exchange loops that order a group by getFilePriority
swap(files, i, j) == [files EXCEPT ![i] = files[j], ![j] = files[i]]

RECURSIVE sortLoop(_, _, _)
sortLoop(files, i, j) ==
    IF i > Len(files) - 1 THEN files
    ELSE IF j > Len(files) THEN sortLoop(files, i + 1, i + 2)
    ELSE IF getFilePriority(Ext(files[i])) > getFilePriority(Ext(files[j]))
         THEN Bind(swap(files, i, j), LAMBDA swapped : sortLoop(swapped, i, j + 1))
         ELSE sortLoop(files, i, j + 1)

sortByPriority(files) == sortLoop(files, 1, 2)

\* moveToRemove for files[i], files[i+1], ...
RECURSIVE moveFrom(_, _, _)
moveFrom(st, files, i) ==
    IF i > Len(files) THEN st
    ELSE Bind(moveToRemove(st, files[i]), LAMBDA s1 : moveFrom(s1, files, i + 1))

\* step 2 for one group: a single file is kept; otherwise the group is
\* sorted, files[0] is kept and the others are moved
processGroup(st, files) ==
    IF Len(files) = 1 THEN st
    ELSE IF Len(files) = 0 THEN st
    ELSE Bind(sortByPriority(files), LAMBDA sorted : moveFrom(st, sorted, 2))

\* step 2: the range over the fileGroups map, in the iteration order `order`
RECURSIVE processGroups(_, _, _)
processGroups(st, groups, order) ==
    IF order = <<>> THEN st
    ELSE Bind(processGroup(st, groups[Head(order)]),
              LAMBDA s1 : processGroups(s1, groups, Tail(order)))

\* step 2: processedFiles, every file of every group
processedFilesOf(groups) ==
    UNION { { groups[k][i] : i \in 1..Len(groups[k]) } : k \in DOMAIN groups }

\* step 3 that leaves alone a file with no other file of its base name in its
\* directory
RECURSIVE nonKeepPassGrouped(_, _, _)
nonKeepPassGrouped(st, all, processed) ==
    IF all = <<>> THEN st
    ELSE LET file == Head(all)
         IN  IF file \in processed
             THEN nonKeepPassGrouped(st, Tail(all), processed)
             ELSE IF /\ ~isKeepExtension(ToLower(Ext(file)))
                     /\ \E q \in DOMAIN st.fs.files :
                           q # file /\ groupKey(q) = groupKey(file)
                  THEN Bind(moveToRemove([fs |-> st.fs, moved |-> st.moved], file),
                            LAMBDA m :
                                nonKeepPassGrouped([fs |-> m.fs, moved |-> m.moved,
                                                    nonKeepCount |-> st.nonKeepCount + 1],
                                                   Tail(all), processed))
                  ELSE nonKeepPassGrouped(st, Tail(all), processed)

\* step 3: every file not yet processed whose extension is not kept is
\* counted and moved; st.nonKeepCount is the counter
RECURSIVE nonKeepPass(_, _, _)
nonKeepPass(st, all, processed) ==
    IF all = <<>> THEN st
    ELSE LET file == Head(all)
         IN  IF file \in processed
             THEN nonKeepPass(st, Tail(all), processed)
             ELSE IF ~isKeepExtension(ToLower(Ext(file)))
                  THEN Bind(moveToRemove([fs |-> st.fs, moved |-> st.moved], file),
                            LAMBDA m :
                                nonKeepPass([fs |-> m.fs, moved |-> m.moved,
                                             nonKeepCount |-> st.nonKeepCount + 1],
                                            Tail(all), processed))
                  ELSE nonKeepPass(st, Tail(all), processed)

\* step 4 without the test that spares the directory being cleaned
RECURSIVE removeEmptyDirsWithRoot(_, _, _)
removeEmptyDirsWithRoot(f, path, walk) ==
    IF walk = <<>> THEN f
    ELSE LET p == Head(walk)
         IN  IF IsDir(f, p) /\ Entries(f, p) = {}
             THEN Bind([f EXCEPT !.dirs = @ \ {p}],
                       LAMBDA f1 : removeEmptyDirsWithRoot(f1, path, Tail(walk)))
             ELSE removeEmptyDirsWithRoot(f, path, Tail(walk))

\* step 4: the second walk removes every directory other than path that has
\* no entry when the walk calls back for it
RECURSIVE removeEmptyDirs(_, _, _)
removeEmptyDirs(f, path, walk) ==
    IF walk = <<>> THEN f
    ELSE LET p == Head(walk)
         IN  IF IsDir(f, p) /\ p # path /\ Entries(f, p) = {}
             THEN Bind([f EXCEPT !.dirs = @ \ {p}],
                       LAMBDA f1 : removeEmptyDirs(f1, path, Tail(walk)))
             ELSE removeEmptyDirs(f, path, Tail(walk))

\* cleanDirectory whose RemovedFiles counts the files moved in step 2 as
\* well, with KeptFiles left as it is
cleanDirectoryCountsLosers(f, path, order) ==
    Bind(allFilesOf(f, path), LAMBDA all :
    Bind(fileGroupsOf(f, path), LAMBDA groups :
    Bind(processGroups([fs |-> f, moved |-> <<>>], groups, order), LAMBDA s2 :
    Bind(processedFilesOf(groups), LAMBDA processedFiles :
    Bind(nonKeepPass([fs |-> s2.fs, moved |-> s2.moved, nonKeepCount |-> 0],
                     all, processedFiles), LAMBDA s3 :
    Bind(Walk(s3.fs, path), LAMBDA walk :
        [fs |-> removeEmptyDirs(s3.fs, path, walk),
         relocated |-> s3.fs,
         moved |-> s3.moved,
         groups |-> groups,
         stats |-> [TotalFiles |-> Len(all),
                    KeptFiles |-> Len(all) - s3.nonKeepCount,
                    RemovedFiles |-> s3.nonKeepCount + Len(s2.moved),
                    Success |-> TRUE,
                    ErrorMsg |-> ""]]))))))

\* cleanDirectory(path), with the map iteration order of step 2 given;
\* `relocated` is the file system when step 4 begins
cleanDirectory(f, path, order) ==
    Bind(allFilesOf(f, path), LAMBDA all :
    Bind(fileGroupsOf(f, path), LAMBDA groups :
    Bind(processGroups([fs |-> f, moved |-> <<>>], groups, order), LAMBDA s2 :
    Bind(processedFilesOf(groups), LAMBDA processedFiles :
    Bind(nonKeepPass([fs |-> s2.fs, moved |-> s2.moved, nonKeepCount |-> 0],
                     all, processedFiles), LAMBDA s3 :
    Bind(Walk(s3.fs, path), LAMBDA walk :
        [fs |-> removeEmptyDirs(s3.fs, path, walk),
         relocated |-> s3.fs,
         moved |-> s3.moved,
         groups |-> groups,
         stats |-> [TotalFiles |-> Len(all),
                    KeptFiles |-> Len(all) - s3.nonKeepCount,
                    RemovedFiles |-> s3.nonKeepCount,
                    Success |-> TRUE,
                    ErrorMsg |-> ""]]))))))

\* the orders in which a Go map with the key set S can be ranged over
RECURSIVE Orders(_)
Orders(S) ==
    IF S = {} THEN { <<>> }
    ELSE UNION { { << k >> \o o : o \in Bind(S \ {k}, LAMBDA rest : Orders(rest)) } : k \in S }

\* --------------------------------------------------------------------------
\* Names, configurations and trees the model is run on
\* --------------------------------------------------------------------------
sPdf == << "p", "d", "f" >>
sDocx == << "d", "o", "c", "x" >>
sTxt == << "t", "x", "t" >>
sJpg == << "j", "p", "g" >>
sReport == << "r", "e", "p", "o", "r", "t" >>
sNotes == << "n", "o", "t", "e", "s" >>
sSub == << "s", "u", "b" >>
Dot == << "." >>

\* the directory handed to cleanDirectory
CleanRoot == << << "a" >> >>

\* (KeepExtensions, Priority) as written in config.toml
ConfigInputs ==
    { << << sPdf, sTxt, sDocx, sJpg >>, << sPdf, sDocx, sTxt, sJpg >> >>,
      << << sPdf, sDocx >>, << >> >>,
      << << sDocx, sPdf >>, << sPdf >> >> }

\* the regular files an initial tree may hold
TreeFiles ==
    { CleanRoot \o << sReport \o Dot \o sPdf >>,
      CleanRoot \o << sReport \o Dot \o sDocx >>,
      CleanRoot \o << sReport \o Dot \o sTxt >>,
      CleanRoot \o << sReport \o Dot \o sJpg >>,
      CleanRoot \o << sReport \o Dot \o << "P", "D", "F" >> >>,
      CleanRoot \o << sNotes \o Dot \o sTxt >>,
      CleanRoot \o << sReport, Dot \o sPdf >>,
      CleanRoot \o << sSub, sReport \o Dot \o sPdf >>,
      CleanRoot \o << RemoveName, sReport \o Dot \o sDocx >>,
      CleanRoot \o << RemoveName, sNotes \o Dot \o sTxt >>,
      CleanRoot \o << RemoveName, sReport \o << "_", "1" >> \o Dot \o sDocx >> }

\* the directories a set of files needs, with the root
DirsOf(paths, top) ==
    {top} \cup UNION { { SubSeq(p, 1, n) : n \in Len(top)..(Len(p) - 1) } : p \in paths }

\* a tree holding the files ps; the content of a file is named by the path
\* it had in the initial tree
TreeOf(ps, top) == [files |-> [p \in ps |-> p], dirs |-> DirsOf(ps, top)]

NoResult == [op |-> "none"]
NoFile == << "no file" >>

\* --------------------------------------------------------------------------
\* The cleaner run on a populated directory
\* --------------------------------------------------------------------------
InitClean ==
    /\ \E c \in ConfigInputs : config = loadConfig(c[1], c[2])
    /\ \E ps \in SUBSET TreeFiles :
          /\ Cardinality(ps) <= MaxFiles
          /\ fs = TreeOf(ps, CleanRoot)
    /\ root = CleanRoot
    /\ passes = 0
    /\ before = fs
    /\ result = NoResult
    /\ pc = "clean"
    /\ archives = << >>
    /\ idx = 0
    /\ manifestEntries = << >>
    /\ csv = NoFile
    /\ NoGoroutines

\* one call cleanDirectory(root)
Clean ==
    /\ pc = "clean"
    /\ passes < MaxPasses
    /\ \E keys \in { DOMAIN fileGroupsOf(fs, root) } :
       \E order \in Orders(keys) :
          \E r \in { cleanDirectory(fs, root, order) } :
              /\ result' = [op |-> "clean", moved |-> r.moved, groups |-> r.groups,
                            relocated |-> r.relocated,
                            stats |-> r.stats, prev |-> result]
              /\ fs' = r.fs
    /\ before' = fs
    /\ passes' = passes + 1
    /\ UNCHANGED << conc, config, root, pc, archives, idx, manifestEntries, csv >>

NextClean == Clean

SpecClean == InitClean /\ [][NextClean]_vars

\* --------------------------------------------------------------------------
\* The cleaner run on a tree with subdirectories, some of them empty
\* --------------------------------------------------------------------------
sThreeDotsPdf == << ".", ".", "." >> \o sPdf

\* the regular files the tree may hold, in the subdirectories x and y; the
\* last one is a regular file named `.remove`
NestedFiles ==
    { CleanRoot \o << sReport \o Dot \o sPdf >>,
      CleanRoot \o << << "x" >>, sReport \o Dot \o sPdf >>,
      CleanRoot \o << << "y" >>, sReport \o Dot \o sPdf >>,
      CleanRoot \o << << "x" >>, sReport \o Dot \o sDocx >>,
      CleanRoot \o << << "x" >>, sNotes \o Dot \o sTxt >>,
      CleanRoot \o << << "x" >>, sThreeDotsPdf >>,
      CleanRoot \o << << "y" >>, sThreeDotsPdf >>,
      CleanRoot \o << << "x" >>, RemoveName >> }

\* the directories without any entry the tree may hold: a/g, and a/e/f in
\* a/e that holds nothing else
EmptyDirs ==
    { CleanRoot \o << << "g" >> >>,
      CleanRoot \o << << "e" >>, << "f" >> >> }

InitTree ==
    /\ \E c \in ConfigInputs : config = loadConfig(c[1], c[2])
    /\ \E ps \in SUBSET NestedFiles, es \in SUBSET EmptyDirs :
          /\ Cardinality(ps) <= MaxFiles
          /\ fs = [files |-> [p \in ps |-> p],
                   dirs |-> DirsOf(ps, CleanRoot)
                              \cup UNION { { SubSeq(d, 1, n) : n \in 1..Len(d) } : d \in es }]
    /\ root = CleanRoot
    /\ passes = 0
    /\ before = fs
    /\ result = NoResult
    /\ pc = "clean"
    /\ archives = << >>
    /\ idx = 0
    /\ manifestEntries = << >>
    /\ csv = NoFile
    /\ NoGoroutines

SpecTree == InitTree /\ [][NextClean]_vars

\* --------------------------------------------------------------------------
\* dirExistsAndHasContent and the extractors
\* --------------------------------------------------------------------------
\* dirExistsAndHasContent that counts every entry, directories too
dirHasAnyEntry(f, dir) == IsDir(f, dir) /\ Entries(f, dir) # {}

\* dirExistsAndHasContent(dir): dir is a directory and os.ReadDir yields at
\* least one entry that is not a directory
dirExistsAndHasContent(f, dir) ==
    /\ Exists(f, dir)
    /\ IsDir(f, dir)
    /\ Cardinality({ e \in Entries(f, dir) : ~IsDir(f, e) }) > 0

\* decodeChineseFilename on an entry name of the model: the name is ASCII,
\* valid UTF-8 without a Han character, and is returned as it is
decodeChineseFilename(name) == name

\* filepath.Join(dest, fileName) for an entry name of several elements
RECURSIVE JoinAll(_, _)
JoinAll(dir, elems) ==
    IF elems = <<>> THEN dir
    ELSE JoinAll(Join(dir, decodeChineseFilename(Head(elems))), Tail(elems))

\* the entry loop of an extractor: entry i is written to Join(dest, name)
\* with its parent directories, replacing a file already there; the loop
\* returns an error at entry failAt + 1 (failAt = Len(entries): no error),
\* or earlier when a path cannot be created
RECURSIVE extractLoop(_, _, _, _, _, _)
extractLoop(f, src, dest, entries, i, failAt) ==
    IF i > Len(entries) THEN [fs |-> f, err |-> FALSE]
    ELSE IF i > failAt THEN [fs |-> f, err |-> TRUE]
    ELSE LET fpath == JoinAll(dest, entries[i])
         IN  IF ~MkdirAllOk(f, Dir(fpath)) \/ IsDir(f, fpath)
             THEN [fs |-> f, err |-> TRUE]
             ELSE Bind([fs |-> MkdirAll(f, Dir(fpath)), at |-> fpath], LAMBDA m :
                  Bind([m.fs EXCEPT !.files =
                            [q \in (DOMAIN m.fs.files) \cup {m.at} |->
                                IF q = m.at THEN src \o entries[i] ELSE m.fs.files[q]]],
                       LAMBDA f2 : extractLoop(f2, src, dest, entries, i + 1, failAt)))

\* extractZip, extractRar: failAt = 0 is an archive that cannot be opened
extractZip(f, src, dest, entries, failAt) == extractLoop(f, src, dest, entries, 1, failAt)
extractRar(f, src, dest, entries, failAt) == extractLoop(f, src, dest, entries, 1, failAt)

\* extractIso: the 7z tool writes into dest; failAt = 0 is a missing tool or
\* an unreadable image, a later failAt a tool that exits with an error
extractIso(f, src, dest, entries, failAt) ==
    extractLoop(MkdirAll(f, dest), src, dest, entries, 1, failAt)

sZip == << ".", "z", "i", "p" >>
sRar == << ".", "r", "a", "r" >>
sIso == << ".", "i", "s", "o" >>
ARCHIVE_EXTS == { sZip, sRar, sIso }

\* the switch of processArchive on the lowercased extension
dispatch(f, archivePath, extractDir, entries, failAt) ==
    LET e == ToLower(Ext(archivePath))
    IN  IF e = sZip THEN extractZip(f, archivePath, extractDir, entries, failAt)
        ELSE IF e = sRar THEN extractRar(f, archivePath, extractDir, entries, failAt)
        ELSE IF e = sIso THEN extractIso(f, archivePath, extractDir, entries, failAt)
        ELSE [fs |-> f, err |-> FALSE]

\* --------------------------------------------------------------------------
\* processArchive
\* --------------------------------------------------------------------------
\* the working directory of the process, for filepath.Abs
Cwd == << << "w" >> >>
Abs(p) == Cwd \o p

\* extractDir := strings.TrimSuffix(archivePath, filepath.Ext(archivePath))
extractDirOf(archivePath) ==
    Join(Dir(archivePath), TrimSuffix(Base(archivePath), Ext(archivePath)))

\* processArchive that returns no entry whenever the extractor fails
beforeCleanNoRecovery(f, archivePath, entries, failAt) ==
    LET extractDir == extractDirOf(archivePath)
    IN  IF dirExistsAndHasContent(f, extractDir)
        THEN [fs |-> f, path |-> "already", extracted |-> FALSE, clean |-> TRUE]
        ELSE IF ~MkdirAllOk(f, extractDir)
        THEN [fs |-> f, path |-> "nodir", extracted |-> FALSE, clean |-> FALSE]
        ELSE Bind(dispatch(MkdirAll(f, extractDir), archivePath, extractDir, entries, failAt),
                  LAMBDA x :
                  IF x.err
                  THEN [fs |-> x.fs, path |-> "failed", extracted |-> TRUE, clean |-> FALSE]
                  ELSE [fs |-> x.fs, path |-> "extracted", extracted |-> TRUE, clean |-> TRUE])

\* processArchive up to the call of cleanDirectory: `path` says which way
\* the function went, `extracted` whether an extractor was run
beforeClean(f, archivePath, entries, failAt) ==
    LET extractDir == extractDirOf(archivePath)
    IN  IF dirExistsAndHasContent(f, extractDir)
        THEN [fs |-> f, path |-> "already", extracted |-> FALSE, clean |-> TRUE]
        ELSE IF ~MkdirAllOk(f, extractDir)
        THEN [fs |-> f, path |-> "nodir", extracted |-> FALSE, clean |-> FALSE]
        ELSE Bind(dispatch(MkdirAll(f, extractDir), archivePath, extractDir, entries, failAt),
                  LAMBDA x :
                  IF x.err
                  THEN IF dirExistsAndHasContent(x.fs, extractDir)
                       THEN [fs |-> x.fs, path |-> "recovered", extracted |-> TRUE, clean |-> TRUE]
                       ELSE [fs |-> x.fs, path |-> "failed", extracted |-> TRUE, clean |-> FALSE]
                  ELSE [fs |-> x.fs, path |-> "extracted", extracted |-> TRUE, clean |-> TRUE])

\* the walk that collects one ManifestEntry per regular file under extractDir
collectEntries(f, extractDir, archivePath) ==
    Bind(SelectSeq(Walk(f, extractDir), LAMBDA p : ~IsDir(f, p)), LAMBDA files :
        [i \in 1..Len(files) |->
            [Filename |-> Base(files[i]),
             Filepath |-> Abs(files[i]),
             SourceArchiveName |-> Base(archivePath),
             SourceArchivePath |-> Abs(archivePath)]])

\* the map iteration orders cleanDirectory may take in processArchive
cleanOrders(f, archivePath, entries, failAt) ==
    Bind(beforeClean(f, archivePath, entries, failAt), LAMBDA b :
        IF b.clean
        THEN Bind(DOMAIN fileGroupsOf(b.fs, extractDirOf(archivePath)),
                  LAMBDA keys : Orders(keys))
        ELSE { <<>> })

\* processArchive(archivePath); `mid` is the file system as the extractor
\* left it, before cleanDirectory
processArchive(f, archivePath, entries, failAt, order) ==
    Bind(extractDirOf(archivePath), LAMBDA extractDir :
    Bind(beforeClean(f, archivePath, entries, failAt), LAMBDA b :
        IF b.clean
        THEN Bind(cleanDirectory(b.fs, extractDir, order), LAMBDA c :
                 [fs |-> c.fs, mid |-> b.fs, path |-> b.path, extracted |-> b.extracted,
                  cleaned |-> TRUE, moved |-> c.moved, stats |-> c.stats,
                  entries |-> collectEntries(c.fs, extractDir, archivePath)])
        ELSE [fs |-> b.fs, mid |-> b.fs, path |-> b.path, extracted |-> b.extracted,
              cleaned |-> FALSE, moved |-> << >>, stats |-> << >>,
              entries |-> << >>]))

\* --------------------------------------------------------------------------
\* The sequential driver (main)
\* --------------------------------------------------------------------------
\* the root directory given on the command line
RootDir == << << "d" >> >>

\* the archives that may lie under the root: a.zip and a.rar share the
\* extraction directory d/a, b.zip lies inside it
ArchiveFiles ==
    { RootDir \o << << "a" >> \o sZip >>,
      RootDir \o << << "a" >> \o sRar >>,
      RootDir \o << << "a" >>, << "b" >> \o sZip >>,
      RootDir \o << << "c" >> \o sIso >> }

\* files left under d/a by an earlier run or by hand, and a regular file
\* d/c where c.iso would be extracted
PreFiles ==
    { RootDir \o << << "a" >>, sReport \o Dot \o sPdf >>,
      RootDir \o << << "a" >>, sSub, sNotes \o Dot \o sTxt >>,
      RootDir \o << << "c" >> >> }

\* the entry lists an archive may hold; the last one has a regular file
\* named `.remove`, which keeps moveToRemove from creating its directory
ArchiveContents ==
    { << << sReport \o Dot \o sPdf >>, << sReport \o Dot \o sDocx >>, << sNotes \o Dot \o sTxt >> >>,
      << << sSub, sReport \o Dot \o sPdf >> >>,
      << << RemoveName >>, << sNotes \o Dot \o sJpg >> >> }

\* the zero value of the global config, before loadConfig
ZeroConfig == [KeepExtensions |-> << >>, Priority |-> << >>]

\* what log.Fatalf leaves behind: the process has exited with the cause
Fatalf(cause, r) == [op |-> "fatal", cause |-> cause, prev |-> r]

Init ==
    /\ config = ZeroConfig
    /\ \E as \in SUBSET ArchiveFiles, ps \in SUBSET PreFiles :
          /\ Cardinality(as) <= MaxArchives
          /\ fs = TreeOf(as \cup ps, RootDir)
    /\ root = RootDir
    /\ passes = 0
    /\ before = fs
    /\ result = NoResult
    /\ pc = "start"
    /\ archives = << >>
    /\ idx = 0
    /\ manifestEntries = << >>
    /\ csv = NoFile
    /\ NoGoroutines

\* main: setupLogging creates processing.log, or the process exits
SetupLogging ==
    /\ pc = "start"
    /\ \E ok \in BOOLEAN :
          IF ok THEN pc' = "config" /\ result' = result
          ELSE pc' = "fatal" /\ result' = Fatalf("log", result)
    /\ UNCHANGED << conc, config, fs, root, passes, before, archives, idx, manifestEntries, csv >>

\* main: loadConfig reads and parses config.toml, or the process exits
LoadConfig ==
    /\ pc = "config"
    /\ \/ \E c \in ConfigInputs :
             /\ config' = loadConfig(c[1], c[2])
             /\ pc' = "scan"
             /\ result' = result
       \/ /\ config' = config
          /\ pc' = "fatal"
          /\ result' = Fatalf("config", result)
    /\ UNCHANGED << conc, fs, root, passes, before, archives, idx, manifestEntries, csv >>

\* the header and the rows written to file_manifest.csv
CsvRows(es) ==
    << << "filename", "filepath", "source_archive_name", "source_archive_path" >> >>
        \o [i \in 1..Len(es) |->
              << es[i].Filename, es[i].Filepath,
                 es[i].SourceArchiveName, es[i].SourceArchivePath >>]

\* Scan with file_manifest.csv created, and its header written, before the
\* loop over the archives
ScanCreatesCsv ==
    /\ pc = "scan"
    /\ archives' = SelectSeq(Walk(fs, root),
                              LAMBDA p : ~IsDir(fs, p) /\ ToLower(Ext(p)) \in ARCHIVE_EXTS)
    /\ idx' = 1
    /\ pc' = IF Len(archives') = 0 THEN "done" ELSE "loop"
    /\ csv' = IF Len(archives') = 0 THEN csv ELSE CsvRows(<< >>)
    /\ UNCHANGED << conc, config, fs, root, passes, before, result, manifestEntries >>

\* main: the walk that collects the archives under rootDir
Scan ==
    /\ pc = "scan"
    /\ archives' = SelectSeq(Walk(fs, root),
                              LAMBDA p : ~IsDir(fs, p) /\ ToLower(Ext(p)) \in ARCHIVE_EXTS)
    /\ idx' = 1
    /\ pc' = IF Len(archives') = 0 THEN "done" ELSE "loop"
    /\ UNCHANGED << conc, config, fs, root, passes, before, result, manifestEntries, csv >>

\* what a processArchive call can read from the archive, as (entries,
\* failAt): nothing when the extractor is not run, an error at once when the
\* archive is no longer at its path, else any content and any point of failure
ArchiveReads(f, archivePath) ==
    IF \/ dirExistsAndHasContent(f, extractDirOf(archivePath))
       \/ ~MkdirAllOk(f, extractDirOf(archivePath))
    THEN { << << >>, 0 >> }
    ELSE IF ~IsFile(f, archivePath)
    THEN { << CHOOSE e \in ArchiveContents : TRUE, 0 >> }
    ELSE UNION { { << e, n >> : n \in 0..Len(e) } : e \in ArchiveContents }

\* ProcessNext with the first entry of an archive put before the entries
\* accumulated so far
ProcessNextInterleaved ==
    /\ pc = "loop"
    /\ idx <= Len(archives)
    /\ \E rd \in ArchiveReads(fs, archives[idx]) :
       \E entries \in { rd[1] }, failAt \in { rd[2] } :
          /\ \E order \in cleanOrders(fs, archives[idx], entries, failAt) :
                \E r \in { processArchive(fs, archives[idx], entries, failAt, order) } :
                    /\ fs' = r.fs
                    /\ manifestEntries' =
                          IF r.entries = << >> THEN manifestEntries
                          ELSE << Head(r.entries) >> \o manifestEntries \o Tail(r.entries)
                    /\ result' = [op |-> "archive", archive |-> archives[idx],
                                  done |-> Append(IF result.op = "archive" THEN result.done
                                                  ELSE << >>,
                                                  [archive |-> archives[idx], path |-> r.path]),
                                  holds |-> entries, failAt |-> failAt,
                                  path |-> r.path, extracted |-> r.extracted,
                                  mid |-> r.mid, cleaned |-> r.cleaned, moved |-> r.moved,
                                  stats |-> r.stats, entries |-> r.entries]
    /\ before' = fs
    /\ idx' = idx + 1
    /\ pc' = IF idx = Len(archives) THEN "write" ELSE "loop"
    /\ UNCHANGED << conc, config, root, passes, archives, csv >>

\* ProcessNext that ends the run when an archive could not be extracted
ProcessNextStopsOnFailure ==
    /\ pc = "loop"
    /\ idx <= Len(archives)
    /\ \E rd \in ArchiveReads(fs, archives[idx]) :
       \E entries \in { rd[1] }, failAt \in { rd[2] } :
          /\ \E order \in cleanOrders(fs, archives[idx], entries, failAt) :
                \E r \in { processArchive(fs, archives[idx], entries, failAt, order) } :
                    /\ fs' = r.fs
                    /\ manifestEntries' = manifestEntries \o r.entries
                    /\ result' = [op |-> "archive", archive |-> archives[idx],
                                  done |-> Append(IF result.op = "archive" THEN result.done
                                                  ELSE << >>,
                                                  [archive |-> archives[idx], path |-> r.path]),
                                  holds |-> entries, failAt |-> failAt,
                                  path |-> r.path, extracted |-> r.extracted,
                                  mid |-> r.mid, cleaned |-> r.cleaned, moved |-> r.moved,
                                  stats |-> r.stats, entries |-> r.entries]
                    /\ pc' = IF r.path \in { "failed", "nodir" } THEN "stopped"
                             ELSE IF idx = Len(archives) THEN "write" ELSE "loop"
    /\ before' = fs
    /\ idx' = idx + 1
    /\ UNCHANGED << conc, config, root, passes, archives, csv >>

\* main: one iteration of the loop over archives, the whole processArchive
\* call and the append of its entries; result.done lists the calls made so
\* far
ProcessNext ==
    /\ pc = "loop"
    /\ idx <= Len(archives)
    /\ \E rd \in ArchiveReads(fs, archives[idx]) :
       \E entries \in { rd[1] }, failAt \in { rd[2] } :
          /\ \E order \in cleanOrders(fs, archives[idx], entries, failAt) :
                \E r \in { processArchive(fs, archives[idx], entries, failAt, order) } :
                    /\ fs' = r.fs
                    /\ manifestEntries' = manifestEntries \o r.entries
                    /\ result' = [op |-> "archive", archive |-> archives[idx],
                                  done |-> Append(IF result.op = "archive" THEN result.done
                                                  ELSE << >>,
                                                  [archive |-> archives[idx], path |-> r.path]),
                                  holds |-> entries, failAt |-> failAt,
                                  path |-> r.path, extracted |-> r.extracted,
                                  mid |-> r.mid, cleaned |-> r.cleaned, moved |-> r.moved,
                                  stats |-> r.stats, entries |-> r.entries]
    /\ before' = fs
    /\ idx' = idx + 1
    /\ pc' = IF idx = Len(archives) THEN "write" ELSE "loop"
    /\ UNCHANGED << conc, config, root, passes, archives, csv >>

\* WriteCsv that exits on a failed write, after the file has been created
WriteCsvLeavesFile ==
    /\ pc = "write"
    /\ \E ok \in BOOLEAN :
          IF ok
          THEN /\ csv' = CsvRows(manifestEntries)
               /\ pc' = "done"
               /\ result' = result
          ELSE /\ csv' = << >>
               /\ pc' = "fatal"
               /\ result' = Fatalf("manifest", result)
    /\ UNCHANGED << conc, config, fs, root, passes, before, archives, idx, manifestEntries >>

\* main: file_manifest.csv is created and the header and the rows are
\* written, or os.Create fails and the process exits
WriteCsv ==
    /\ pc = "write"
    /\ \E ok \in BOOLEAN :
          IF ok
          THEN /\ csv' = CsvRows(manifestEntries)
               /\ pc' = "done"
               /\ result' = result
          ELSE /\ csv' = csv
               /\ pc' = "fatal"
               /\ result' = Fatalf("manifest", result)
    /\ UNCHANGED << conc, config, fs, root, passes, before, archives, idx, manifestEntries >>

Next == SetupLogging \/ LoadConfig \/ Scan \/ ProcessNext \/ WriteCsv

Spec == Init /\ [][Next]_vars

\* the runs whose progress is checked: a zip archive and an iso image under
\* the root, with or without a regular file where the image would be extracted
LiveArchives ==
    { RootDir \o << << "a" >> \o sZip >>,
      RootDir \o << << "c" >> \o sIso >> }

InitLive ==
    /\ config = ZeroConfig
    /\ \E as \in SUBSET LiveArchives, ps \in SUBSET { RootDir \o << << "c" >> >> } :
          /\ Cardinality(as) <= MaxArchives
          /\ fs = TreeOf(as \cup ps, RootDir)
    /\ root = RootDir
    /\ passes = 0
    /\ before = fs
    /\ result = NoResult
    /\ pc = "start"
    /\ archives = << >>
    /\ idx = 0
    /\ manifestEntries = << >>
    /\ csv = NoFile
    /\ NoGoroutines

\* main is one sequential thread that runs to completion: a step that can
\* be taken is taken
SpecLive == InitLive /\ [][Next]_vars /\ WF_vars(Next)

\* --------------------------------------------------------------------------
\* Sequences of moveToRemove calls on one directory
\* --------------------------------------------------------------------------
\* the regular files the directory may hold before the first call
MoveFiles ==
    { CleanRoot \o << sReport \o Dot \o sDocx >>,
      CleanRoot \o << sReport \o << "_", "1" >> \o Dot \o sDocx >>,
      CleanRoot \o << sNotes \o Dot \o sTxt >>,
      CleanRoot \o << RemoveName, sReport \o Dot \o sDocx >>,
      CleanRoot \o << RemoveName, sReport \o << "_", "1" >> \o Dot \o sDocx >> }

InitMove ==
    /\ config = loadConfig(<< sPdf, sDocx >>, << >>)
    /\ \E ps \in SUBSET MoveFiles :
          /\ Cardinality(ps) <= MaxFiles
          /\ fs = TreeOf(ps, CleanRoot)
    /\ root = CleanRoot
    /\ passes = 0
    /\ before = fs
    /\ result = [op |-> "move", moved |-> << >>, content |-> << >>, born |-> 0]
    /\ pc = "move"
    /\ archives = << >>
    /\ idx = 0
    /\ manifestEntries = << >>
    /\ csv = NoFile
    /\ NoGoroutines

\* one call moveToRemove(p); result.moved is the log of all calls so far,
\* result.content[i] the content of the file the i-th call was made for
MoveOne(p) ==
    /\ pc = "move"
    /\ passes < MaxMoves
    /\ IsFile(fs, p)
    /\ \E m \in { moveToRemove([fs |-> fs, moved |-> result.moved], p) } :
           /\ fs' = m.fs
           /\ result' = [result EXCEPT !.moved = m.moved,
                                        !.content = Append(@, fs.files[p])]
    /\ before' = fs
    /\ passes' = passes + 1
    /\ UNCHANGED << conc, config, root, pc, archives, idx, manifestEntries, csv >>

\* a new file is written at a path a file was moved away from (the archive
\* is extracted again, the user copies the file again)
Reappear(p) ==
    /\ pc = "move"
    /\ passes < MaxMoves
    /\ \E i \in 1..Len(result.moved) : result.moved[i][1] = p
    /\ ~Exists(fs, p)
    /\ ~InRemoveDir(p)
    /\ fs' = [fs EXCEPT !.files =
                 [q \in (DOMAIN fs.files) \cup {p} |->
                     IF q = p THEN << << "#" >>, Itoa(result.born) >> ELSE fs.files[q]]]
    /\ result' = [result EXCEPT !.born = @ + 1]
    /\ UNCHANGED << conc, config, root, passes, before, pc, archives, idx, manifestEntries, csv >>

NextMove ==
    \/ \E p \in DOMAIN fs.files : MoveOne(p)
    \/ \E p \in MoveFiles : Reappear(p)

SpecMove == InitMove /\ [][NextMove]_vars

\* --------------------------------------------------------------------------
\* The extension classifier applied to single extension strings
\* --------------------------------------------------------------------------
sPDF == << "P", "D", "F" >>

\* (KeepExtensions, Priority) as written in config.toml, entries in upper
\* and mixed case among them
ClassifyConfigs ==
    ConfigInputs \cup
    { << << sPDF, sDocx >>, << >> >>,
      << << << "P", "d", "f" >> >>, << >> >>,
      << << sJpg, sPDF >>, << sPDF, sJpg >> >>,
      << << sPdf, sDocx, sTxt >>, << sTxt, sPdf >> >>,
      << << sDocx >>, << >> >>,
      << << >>, << >> >> }

\* the strings handed to isKeepExtension and getFilePriority
ExtInputs ==
    { << >>, Dot,
      Dot \o sPdf, Dot \o sPDF, Dot \o << "P", "d", "f" >>, sPdf, sPDF,
      Dot \o sDocx, Dot \o << "D", "O", "C", "X" >>,
      Dot \o sTxt, Dot \o sJpg, sZip, Dot \o RemoveName }

InitClassify ==
    /\ \E c \in ClassifyConfigs : config = loadConfig(c[1], c[2])
    /\ fs = TreeOf({}, CleanRoot)
    /\ root = CleanRoot
    /\ passes = 0
    /\ before = fs
    /\ result = NoResult
    /\ pc = "classify"
    /\ archives = << >>
    /\ idx = 0
    /\ manifestEntries = << >>
    /\ csv = NoFile
    /\ NoGoroutines

\* isKeepExtension(ext) and getFilePriority(ext) are called; result.ranks are
\* the ranks getFilePriority gives to the Priority entries, a dot before each
Classify(ext) ==
    /\ pc = "classify"
    /\ result' = [op |-> "classify", ext |-> ext,
                  keep |-> isKeepExtension(ext),
                  rank |-> getFilePriority(ext),
                  ranks |-> [i \in 1..Len(config.Priority) |->
                                getFilePriority(Dot \o config.Priority[i])]]
    /\ UNCHANGED << conc, config, fs, root, passes, before, pc, archives, idx, manifestEntries, csv >>

NextClassify == \E ext \in ExtInputs : Classify(ext)

SpecClassify == InitClassify /\ [][NextClassify]_vars

\* --------------------------------------------------------------------------
\* The priority sort of one group
\* --------------------------------------------------------------------------
\* (KeepExtensions, Priority) with kept extensions that Priority leaves out
SortConfigs ==
    ConfigInputs \cup
    { << << sPdf, sDocx, sTxt, sJpg >>, << sPdf >> >>,
      << << sPdf, sDocx, sTxt, sJpg >>, << sTxt, sPdf >> >>,
      << << sPdf, sDocx, sJpg >>, << sJpg >> >> }

\* the files of the directory a that share the base name report
SortFiles ==
    { CleanRoot \o << sReport \o Dot \o e >> :
        e \in { sPdf, sPDF, sDocx, sTxt, sJpg, << "D", "o", "c", "x" >> } }

InitSort ==
    /\ \E c \in SortConfigs : config = loadConfig(c[1], c[2])
    /\ \E ps \in SUBSET SortFiles :
          /\ Cardinality(ps) <= MaxFiles
          /\ fs = TreeOf(ps, CleanRoot)
    /\ root = CleanRoot
    /\ passes = 0
    /\ before = fs
    /\ result = NoResult
    /\ pc = "sort"
    /\ archives = << >>
    /\ idx = 0
    /\ manifestEntries = << >>
    /\ csv = NoFile
    /\ NoGoroutines

\* step 2 of cleanDirectory for the group k, up to the end of the sort:
\* result.files is the group as the walk filled it, result.sorted the slice
\* after the two nested loops
SortGroup(k) ==
    /\ pc = "sort"
    /\ \E files \in { fileGroupsOf(fs, root)[k] } :
          /\ Len(files) >= 2
          /\ result' = [op |-> "sort", key |-> k, files |-> files,
                        sorted |-> sortByPriority(files)]
    /\ UNCHANGED << conc, config, fs, root, passes, before, pc, archives, idx, manifestEntries, csv >>

NextSort == \E k \in DOMAIN fileGroupsOf(fs, root) : SortGroup(k)

SpecSort == InitSort /\ [][NextSort]_vars

\* --------------------------------------------------------------------------
\* The concurrent driver: one goroutine per archive
\* --------------------------------------------------------------------------
\* capacity of the isoSemaphore channel
IsoSlots == 2
\* capacity of manifestChan in the model (10000 in main.go)
MaxChan == 2
\* most entries one goroutine has to send
MaxSend == 2
\* most archives found by the concurrent main
MaxGoroutines == 3

\* the archives the walk of the concurrent main may find
ConcArchives ==
    { RootDir \o << << "a" >> \o sIso >>,
      RootDir \o << << "b" >> \o << ".", "I", "S", "O" >> >>,
      RootDir \o << << "c" >> \o sZip >>,
      RootDir \o << << "e" >> \o sIso >>,
      RootDir \o << << "f" >> \o sRar >> }

\* strings.ToLower(filepath.Ext(archive)) == ".iso"
IsIsoArchive(archive) == ToLower(Ext(archive)) = sIso

\* a goroutine that `go func` has just created
NewGoroutine == [at |-> "start", left |-> 0, held |-> FALSE]

\* the concurrent main after the walk that fills archives
InitConc ==
    /\ config = loadConfig(<< sPdf, sDocx >>, << >>)
    /\ fs = TreeOf({}, RootDir)
    /\ root = RootDir
    /\ passes = 0
    /\ before = fs
    /\ result = NoResult
    /\ \E as \in SUBSET ConcArchives :
          /\ Cardinality(as) <= MaxGoroutines
          /\ archives = SortByName(as)
    /\ pc = "found"
    /\ idx = 1
    /\ manifestEntries = << >>
    /\ csv = NoFile
    /\ NoGoroutines

\* main: the run ends at once when no archive was found
CheckArchives ==
    /\ pc = "found"
    /\ pc' = IF Len(archives) = 0 THEN "done" ELSE "spawn"
    /\ UNCHANGED << config, fs, root, passes, before, result, archives, idx,
                    manifestEntries, csv, conc >>

\* main: one iteration of the loop over archives, wg.Add(1) and the go
\* statement
Spawn ==
    /\ pc = "spawn"
    /\ idx <= Len(archives)
    /\ wg' = wg + 1
    /\ workers' = Append(workers, NewGoroutine)
    /\ idx' = idx + 1
    /\ pc' = IF idx = Len(archives) THEN "wait" ELSE "spawn"
    /\ UNCHANGED << config, fs, root, passes, before, result, archives,
                    manifestEntries, csv, isoSemaphore, manifestChan >>

\* the goroutines stop when main returns or calls Fatalf
Running == pc \notin { "done", "fatal" }

\* goroutine w: the test of the archive's extension
Begin(w) ==
    /\ Running
    /\ workers[w].at = "start"
    /\ workers' = [workers EXCEPT ![w].at =
                      IF IsIsoArchive(archives[w]) THEN "acquire" ELSE "process"]
    /\ UNCHANGED << config, fs, root, passes, before, result, pc, archives, idx,
                    manifestEntries, csv, wg, isoSemaphore, manifestChan >>

\* Acquire that does not wait for a free slot
AcquireNoWait(w) ==
    /\ Running
    /\ workers[w].at = "acquire"
    /\ isoSemaphore' = isoSemaphore + 1
    /\ workers' = [workers EXCEPT ![w].at = "process", ![w].held = TRUE]
    /\ UNCHANGED << config, fs, root, passes, before, result, pc, archives, idx,
                    manifestEntries, csv, wg, manifestChan >>

\* goroutine w: isoSemaphore <- struct{}{}, which waits while the channel is
\* full, and the defer of the release
Acquire(w) ==
    /\ Running
    /\ workers[w].at = "acquire"
    /\ isoSemaphore < IsoSlots
    /\ isoSemaphore' = isoSemaphore + 1
    /\ workers' = [workers EXCEPT ![w].at = "process", ![w].held = TRUE]
    /\ UNCHANGED << config, fs, root, passes, before, result, pc, archives, idx,
                    manifestEntries, csv, wg, manifestChan >>

\* goroutine w: processArchive up to the walk that sends the entries; n is
\* the number of files the walk will meet, none when MkdirAll or the
\* extraction failed
Extract(w) ==
    /\ Running
    /\ workers[w].at = "process"
    /\ \E failed \in BOOLEAN, n \in 0..MaxSend :
          /\ failed => n = 0
          /\ workers' = [workers EXCEPT ![w].at = IF n = 0 THEN "return" ELSE "send",
                                        ![w].left = n]
    /\ UNCHANGED << config, fs, root, passes, before, result, pc, archives, idx,
                    manifestEntries, csv, wg, isoSemaphore, manifestChan >>

\* goroutine w: manifestChan <- entry, which waits while the buffer is full
Send(w) ==
    /\ Running
    /\ workers[w].at = "send"
    /\ ~manifestChan.closed
    /\ Len(manifestChan.buf) < MaxChan
    /\ manifestChan' = [manifestChan EXCEPT !.buf = Append(@, archives[w])]
    /\ workers' = [workers EXCEPT ![w].left = @ - 1,
                                  ![w].at = IF workers[w].left = 1 THEN "return" ELSE "send"]
    /\ UNCHANGED << config, fs, root, passes, before, result, pc, archives, idx,
                    manifestEntries, csv, wg, isoSemaphore >>

\* goroutine w: processArchive returns, the deferred wg.Done() runs
Return(w) ==
    /\ Running
    /\ workers[w].at = "return"
    /\ wg' = wg - 1
    /\ workers' = [workers EXCEPT ![w].at = IF workers[w].held THEN "release" ELSE "done"]
    /\ UNCHANGED << config, fs, root, passes, before, result, pc, archives, idx,
                    manifestEntries, csv, isoSemaphore, manifestChan >>

\* goroutine w: the deferred <-isoSemaphore
Release(w) ==
    /\ Running
    /\ workers[w].at = "release"
    /\ isoSemaphore > 0
    /\ isoSemaphore' = isoSemaphore - 1
    /\ workers' = [workers EXCEPT ![w].at = "done", ![w].held = FALSE]
    /\ UNCHANGED << config, fs, root, passes, before, result, pc, archives, idx,
                    manifestEntries, csv, wg, manifestChan >>

\* main: wg.Wait() returns when the counter is zero
Wait ==
    /\ pc = "wait"
    /\ wg = 0
    /\ pc' = "close"
    /\ UNCHANGED << config, fs, root, passes, before, result, archives, idx,
                    manifestEntries, csv, conc >>

\* main: close(manifestChan)
Close ==
    /\ pc = "close"
    /\ manifestChan' = [manifestChan EXCEPT !.closed = TRUE]
    /\ pc' = "create"
    /\ UNCHANGED << config, fs, root, passes, before, result, archives, idx,
                    manifestEntries, csv, wg, isoSemaphore, workers >>

\* main: os.Create of the manifest and the header row, or Fatalf
Create ==
    /\ pc = "create"
    /\ \E ok \in BOOLEAN :
          IF ok
          THEN /\ csv' = << >>
               /\ pc' = "drain"
               /\ result' = result
          ELSE /\ csv' = csv
               /\ pc' = "fatal"
               /\ result' = Fatalf("manifest", result)
    /\ UNCHANGED << config, fs, root, passes, before, archives, idx,
                    manifestEntries, conc >>

\* main: one iteration of the range over manifestChan, which ends when the
\* closed channel is empty
Drain ==
    /\ pc = "drain"
    /\ IF manifestChan.buf # << >>
       THEN /\ csv' = Append(csv, Head(manifestChan.buf))
            /\ manifestChan' = [manifestChan EXCEPT !.buf = Tail(@)]
            /\ pc' = pc
       ELSE /\ manifestChan.closed
            /\ csv' = csv
            /\ manifestChan' = manifestChan
            /\ pc' = "done"
    /\ UNCHANGED << config, fs, root, passes, before, result, archives, idx,
                    manifestEntries, wg, isoSemaphore, workers >>

NextConc ==
    \/ CheckArchives
    \/ Spawn
    \/ \E w \in 1..Len(workers) :
          Begin(w) \/ Acquire(w) \/ Extract(w) \/ Send(w) \/ Return(w) \/ Release(w)
    \/ Wait
    \/ Close
    \/ Create
    \/ Drain

SpecConc == InitConc /\ [][NextConc]_vars

\* --------------------------------------------------------------------------
\* containsGarbled (encoding.go)
\* --------------------------------------------------------------------------
\* most characters in a string handed to containsGarbled
MaxRunes == 12

\* the characters of the strings: the number of bytes of the UTF-8 encoding
\* and whether unicode.Is(unicode.Han, r)
Runes ==
    [ a    |-> [bytes |-> 1, han |-> FALSE],
      e2   |-> [bytes |-> 2, han |-> FALSE],
      wen  |-> [bytes |-> 3, han |-> TRUE],
      ext  |-> [bytes |-> 4, han |-> TRUE],
      feng |-> [bytes |-> 3, han |-> TRUE],
      lv   |-> [bytes |-> 3, han |-> TRUE],
      fffd |-> [bytes |-> 3, han |-> FALSE] ]

\* garbledPatterns: a Han character followed by U+FFFD
garbledPatterns == { << "feng", "fffd" >>, << "lv", "fffd" >> }

\* isChineseChar(r)
isChineseChar(r) == Runes[r].han

\* len(s) of a Go string: the number of bytes
RECURSIVE ByteLen(_)
ByteLen(s) == IF s = << >> THEN 0 ELSE Runes[Head(s)].bytes + ByteLen(Tail(s))

\* strings.Contains(s, pattern)
Contains(s, pattern) ==
    \E i \in 1..(Len(s) - Len(pattern) + 1) :
        SubSeq(s, i, i + Len(pattern) - 1) = pattern

\* the count of the loop over the runes of s
chineseCount(s) == Cardinality({ i \in 1..Len(s) : isChineseChar(s[i]) })

\* the first rule of containsGarbled: a known pattern occurs in s
patternRule(s) == \E p \in garbledPatterns : Contains(s, p)

\* the second rule of containsGarbled:
\* len(s) > 10 && float64(chineseCount)/float64(len([]rune(s))) > 0.8
ratioRule(s) == ByteLen(s) > 10 /\ 5 * chineseCount(s) > 4 * Len(s)

\* containsGarbled(s)
containsGarbled(s) == patternRule(s) \/ ratioRule(s)

\* n times the character r
Rep(r, n) == [i \in 1..n |-> r]

\* the strings containsGarbled is called with
GarbledInputs ==
    { Rep("wen", h) \o Rep("ext", x) \o Rep("a", n) \o Rep("e2", e) \o tail :
        h \in 0..MaxRunes, x \in 0..1, n \in 0..MaxRunes, e \in 0..1,
        tail \in { << >>, << "feng", "fffd" >>, << "lv", "fffd" >>,
                   << "feng" >>, << "fffd" >>, << "fffd", "lv" >> } }

InitGarbled ==
    /\ config = ZeroConfig
    /\ fs = TreeOf({}, CleanRoot)
    /\ root = CleanRoot
    /\ passes = 0
    /\ before = fs
    /\ result = NoResult
    /\ pc = "garbled"
    /\ archives = << >>
    /\ idx = 0
    /\ manifestEntries = << >>
    /\ csv = NoFile
    /\ NoGoroutines

\* one call containsGarbled(s)
Garble(s) ==
    /\ pc = "garbled"
    /\ Len(s) <= MaxRunes
    /\ result' = [op |-> "garbled", s |-> s,
                  pattern |-> patternRule(s),
                  ratio |-> ratioRule(s),
                  garbled |-> containsGarbled(s)]
    /\ pc' = "returned"
    /\ UNCHANGED << config, fs, root, passes, before, archives, idx,
                    manifestEntries, csv, conc >>

NextGarbled == \E s \in GarbledInputs : Garble(s)

SpecGarbled == InitGarbled /\ [][NextGarbled]_vars

\* --------------------------------------------------------------------------
\* cleanDirectory on a tree that was cleaned before
\* --------------------------------------------------------------------------
\* the regular files of a tree with a `.remove` directory left by an earlier
\* run, some of them back at the paths they were moved from
OrderFiles ==
    { CleanRoot \o << sReport \o Dot \o sPdf >>,
      CleanRoot \o << sReport \o Dot \o sDocx >>,
      CleanRoot \o << sNotes \o Dot \o sTxt >>,
      CleanRoot \o << RemoveName, sReport \o Dot \o sPdf >>,
      CleanRoot \o << RemoveName, sReport \o Dot \o sDocx >>,
      CleanRoot \o << RemoveName, sReport \o << "_", "1" >> \o Dot \o sDocx >> }

InitOrder ==
    /\ \E c \in ConfigInputs : config = loadConfig(c[1], c[2])
    /\ \E ps \in SUBSET OrderFiles :
          /\ Cardinality(ps) <= MaxFiles
          /\ fs = TreeOf(ps, CleanRoot)
    /\ root = CleanRoot
    /\ passes = 0
    /\ before = fs
    /\ result = NoResult
    /\ pc = "clean"
    /\ archives = << >>
    /\ idx = 0
    /\ manifestEntries = << >>
    /\ csv = NoFile
    /\ NoGoroutines

SpecOrder == InitOrder /\ [][NextClean]_vars

\* --------------------------------------------------------------------------
\* The extractors on entry names of any shape
\* --------------------------------------------------------------------------
\* most entries in an archive handed to an extractor
MaxEntries == 2

sDotDot == << ".", "." >>
sEvil == << "e", "v", "i", "l" >>

\* the archives: d/s/a.zip and d/s/a.rar
ExtractArchives ==
    { RootDir \o << sSub, << "a" >> \o sZip >>,
      RootDir \o << sSub, << "a" >> \o sRar >> }

\* entry names as the archive gives them, split at the separators: plain
\* names, names with `..` elements, an absolute name (its first element is
\* empty) and the name of the archive itself, one directory up
EntryNames ==
    { << sReport \o Dot \o sPdf >>,
      << sSub, sReport \o Dot \o sPdf >>,
      << sSub, sDotDot, sNotes \o Dot \o sTxt >>,
      << sDotDot, sEvil \o Dot \o sPdf >>,
      << sDotDot, sDotDot, sEvil \o Dot \o sPdf >>,
      << << >>, sEvil \o Dot \o sPdf >>,
      << sDotDot, << "a" >> \o sZip >> }

\* the entry lists of at most n names
RECURSIVE EntryLists(_)
EntryLists(n) ==
    IF n = 0 THEN { << >> }
    ELSE Bind(EntryLists(n - 1), LAMBDA shorter :
             shorter \cup { Append(l, e) : l \in shorter, e \in EntryNames })

InitExtract ==
    /\ config = loadConfig(<< sPdf, sDocx >>, << >>)
    /\ \E a \in ExtractArchives :
          /\ archives = << a >>
          /\ fs = TreeOf({a}, RootDir)
    /\ root = RootDir
    /\ passes = 0
    /\ before = fs
    /\ result = NoResult
    /\ pc = "extract"
    /\ idx = 1
    /\ manifestEntries = << >>
    /\ csv = NoFile
    /\ NoGoroutines

\* processArchive from os.MkdirAll(extractDir) to the return of the
\* extractor, for an archive that holds `entries`
ExtractArchive ==
    /\ pc = "extract"
    /\ \E entries \in EntryLists(MaxEntries) :
       \E failAt \in 0..Len(entries) :
       \E dest \in { extractDirOf(archives[idx]) } :
       \E x \in { dispatch(MkdirAll(fs, dest), archives[idx], dest, entries, failAt) } :
          /\ fs' = x.fs
          /\ result' = [op |-> "extract", dest |-> dest, holds |-> entries,
                        failAt |-> failAt, err |-> x.err]
    /\ before' = fs
    /\ pc' = "extracted"
    /\ UNCHANGED << config, root, passes, archives, idx, manifestEntries, csv, conc >>

NextExtract == ExtractArchive

SpecExtract == InitExtract /\ [][NextExtract]_vars

\* --------------------------------------------------------------------------
\* The probing loop of moveToRemove, one os.Stat at a time
\* --------------------------------------------------------------------------
\* most os.Stat calls of one probing loop that the model follows
MaxProbes == 4

\* moveToRemove(p) is about to be called; result.statErr says whether
\* os.Stat on a path inside the `.remove` directory fails with an error
\* other than "does not exist" (a `.remove` directory left without search
\* permission), which needs the directory to be there already
InitProbe ==
    /\ config = loadConfig(<< sPdf, sDocx >>, << >>)
    /\ \E ps \in SUBSET MoveFiles :
          /\ Cardinality(ps) <= MaxFiles
          /\ fs = TreeOf(ps, CleanRoot)
    /\ \E p \in DOMAIN fs.files, statErr \in BOOLEAN :
          /\ ~InRemoveDir(p)
          /\ statErr => IsDir(fs, Join(Dir(p), RemoveName))
          /\ result = [op |-> "probe", file |-> p, statErr |-> statErr,
                       destPath |-> << >>, counter |-> 0, tests |-> 0]
    /\ root = CleanRoot
    /\ passes = 0
    /\ before = fs
    /\ pc = "call"
    /\ archives = << >>
    /\ idx = 0
    /\ manifestEntries = << >>
    /\ csv = NoFile
    /\ NoGoroutines

\* moveToRemove up to the loop: MkdirAll of the `.remove` directory, the
\* first destPath and counter := 1
ProbeBegin ==
    /\ pc = "call"
    /\ \E removeDir \in { Join(Dir(result.file), RemoveName) } :
          IF ~MkdirAllOk(fs, removeDir)
          THEN /\ pc' = "returned"
               /\ UNCHANGED << fs, result >>
          ELSE /\ fs' = MkdirAll(fs, removeDir)
               /\ result' = [result EXCEPT !.destPath = Join(removeDir, Base(result.file)),
                                            !.counter = 1]
               /\ pc' = "stat"
    /\ UNCHANGED << config, root, passes, before, archives, idx, manifestEntries, csv, conc >>

\* one iteration of the loop: os.Stat(destPath), break when the error is
\* IsNotExist, else the next name and counter++
ProbeTest ==
    /\ pc = "stat"
    /\ result.tests < MaxProbes
    /\ IF ~result.statErr /\ ~Exists(fs, result.destPath)
       THEN /\ pc' = "rename"
            /\ result' = [result EXCEPT !.tests = @ + 1]
       ELSE /\ pc' = pc
            /\ \E baseName \in { Base(result.file) } :
               \E ext \in { ExtOfName(baseName) } :
                  result' = [result EXCEPT
                      !.destPath = Join(Dir(result.destPath),
                                        TrimSuffix(baseName, ext) \o << "_" >>
                                            \o Itoa(result.counter) \o ext),
                      !.counter = @ + 1,
                      !.tests = @ + 1]
    /\ UNCHANGED << config, fs, root, passes, before, archives, idx, manifestEntries, csv, conc >>

\* os.Rename(filePath, destPath) and the return
ProbeRename ==
    /\ pc = "rename"
    /\ fs' = Rename(fs, result.file, result.destPath)
    /\ pc' = "returned"
    /\ UNCHANGED << config, root, passes, before, result, archives, idx, manifestEntries, csv, conc >>

NextProbe == ProbeBegin \/ ProbeTest \/ ProbeRename

SpecProbe == InitProbe /\ [][NextProbe]_vars

\* --------------------------------------------------------------------------
\* Vocabulary of the properties
\* --------------------------------------------------------------------------
\* a cleanDirectory call has just returned
Cleaned == result.op = "clean"

\* the regular files that were under the cleaned directory when the call began
FilesBefore == { p \in DOMAIN before.files : IsUnder(p, root) }
FilesAfter == { p \in DOMAIN fs.files : IsUnder(p, root) }

\* keep-eligible: the extension, without its dot and with case ignored, is
\* one of the configured KeepExtensions
KeepEligible(p) ==
    \E i \in 1..Len(config.KeepExtensions) :
        ToLower(config.KeepExtensions[i]) = ToLower(TrimPrefix(Ext(p), Dot))

\* the base name of a file, without its extension
Stem(p) == TrimSuffix(Base(p), Ext(p))

\* the group of a keep-eligible file: the keep-eligible files of the same
\* directory with the same base name
GroupOf(p) ==
    { q \in FilesBefore : KeepEligible(q) /\ Dir(q) = Dir(p) /\ Stem(q) = Stem(p) }

\* the file is where it was, with the content it had
AtOriginalPath(p) == IsFile(fs, p) /\ fs.files[p] = before.files[p]

\* the directory is a `.remove` directory
IsRemoveDir(d) == Len(d) > 0 /\ Base(d) = RemoveName

\* the file is gone from its path and its content is in the `.remove`
\* directory next to it
Relocated(p) ==
    /\ ~AtOriginalPath(p)
    /\ \E q \in DOMAIN fs.files :
          /\ fs.files[q] = before.files[p]
          /\ Dir(q) = Append(Dir(p), RemoveName)

Rank(p) == getFilePriority(Ext(p))

\* --------------------------------------------------------------------------
\* C1
\* --------------------------------------------------------------------------
\* the configuration and the group of the example
C1Config == loadConfig(<< sPdf, sTxt, sDocx, sJpg >>, << sPdf, sDocx, sTxt, sJpg >>)
C1Group == { CleanRoot \o << sReport \o Dot \o e >> : e \in { sPdf, sDocx, sTxt, sJpg } }

\* C1: after cleanDirectory, in every group of two or more keep-eligible files
\* of one directory and one base name, exactly one file is left at its path,
\* it has the least getFilePriority rank of the group, and every other member
\* is relocated; in the example group report.pdf is the one left
C1_SurvivorHasMinimalRank ==
    Cleaned =>
        /\ \A p \in FilesBefore :
              (KeepEligible(p) /\ Cardinality(GroupOf(p)) >= 2) =>
                  \E k \in GroupOf(p) :
                      /\ AtOriginalPath(k)
                      /\ \A q \in GroupOf(p) : Rank(k) <= Rank(q)
                      /\ \A q \in GroupOf(p) \ {k} : Relocated(q)
        /\ (config = C1Config /\ C1Group \subseteq FilesBefore) =>
              /\ AtOriginalPath(CleanRoot \o << sReport \o Dot \o sPdf >>)
              /\ \A q \in C1Group \ { CleanRoot \o << sReport \o Dot \o sPdf >> } : Relocated(q)

\* --------------------------------------------------------------------------
\* C3
\* --------------------------------------------------------------------------
\* the call that has just returned was made on a directory that an earlier
\* call had already cleaned
SecondPass == Cleaned /\ result.prev.op = "clean"

\* C3: a second cleanDirectory on an already cleaned directory relocates
\* nothing, returns the kept count of the first pass and a removed count of 0
C3_SecondPassIdle ==
    SecondPass =>
        /\ result.moved = << >>
        /\ result.stats.KeptFiles = result.prev.stats.KeptFiles
        /\ result.stats.RemovedFiles = 0

\* --------------------------------------------------------------------------
\* C4
\* --------------------------------------------------------------------------
\* the content of the file is in some `.remove` directory under the root
UnderRemove(p) ==
    \E q \in FilesAfter :
        /\ fs.files[q] = before.files[p]
        /\ \E n \in 1..(Len(q) - 1) : q[n] = RemoveName

\* C4: of every group of N >= 1 keep-eligible files exactly one member is left
\* at its path and the other N-1 are under a `.remove` directory
C4_SingleSurvivor ==
    Cleaned =>
        \A p \in FilesBefore :
            KeepEligible(p) =>
                /\ Cardinality({ q \in GroupOf(p) : AtOriginalPath(q) }) = 1
                /\ \A q \in GroupOf(p) : AtOriginalPath(q) \/ UnderRemove(q)

RemoveDirBlocked(p) == IsFile(before, Append(Dir(p), RemoveName))

C6_NoFileLost ==
    Cleaned =>
        /\ \A p \in FilesBefore : AtOriginalPath(p) \/ UnderRemove(p)
        /\ Cardinality(FilesAfter) = Cardinality(FilesBefore)

\* a call has relocated a file into a `.remove` directory where its name
\* was already taken
C6_Witness ==
    /\ Cleaned
    /\ \E i \in 1..Len(result.moved) :
          /\ Base(result.moved[i][2]) # Base(result.moved[i][1])
          /\ IsFile(before, Join(Dir(result.moved[i][2]), Base(result.moved[i][1])))

\* --------------------------------------------------------------------------
\* C8
\* --------------------------------------------------------------------------
\* C8: TotalFiles is the number of regular files enumerated, RemovedFiles the
\* number of files relocated during the call, KeptFiles the number of files
\* left at their path
C8_StatsCountRelocations ==
    Cleaned =>
        /\ result.stats.TotalFiles = Cardinality(FilesBefore)
        /\ result.stats.RemovedFiles = Cardinality({ p \in FilesBefore : ~AtOriginalPath(p) })
        /\ result.stats.KeptFiles = Cardinality({ p \in FilesBefore : AtOriginalPath(p) })

\* --------------------------------------------------------------------------
\* C2
\* --------------------------------------------------------------------------
\* a processArchive call that reached cleanDirectory has just returned
Processed == result.op = "archive"

\* the path has a `.remove` element
InRemove(p) == \E n \in 1..Len(p) : p[n] = RemoveName

\* the files left under the extraction directory outside every `.remove`
Survivors(extractDir) ==
    { p \in DOMAIN fs.files : IsUnder(p, extractDir) /\ ~InRemove(p) }

C2Archive == RootDir \o << << "a" >> \o sZip >>
C2Holds == << << sReport \o Dot \o sPdf >>, << sReport \o Dot \o sDocx >>, << sNotes \o Dot \o sTxt >> >>
C2Case ==
    /\ Processed
    /\ result.archive = C2Archive
    /\ result.holds = C2Holds
    /\ result.path = "extracted"
    /\ config = loadConfig(<< sPdf, sDocx >>, << >>)
    /\ ~IsDir(before, extractDirOf(C2Archive))

\* C2: the entries processArchive returns are exactly the files that survived
\* cleaning at their extracted location, none for a file under `.remove`;
\* a.zip holding report.pdf, report.docx and notes.txt with
\* KeepExtensions=[pdf,docx] gives the one row of report.pdf, from a.zip
C2_ManifestIsSurvivors ==
    /\ (Processed /\ result.cleaned) =>
          { result.entries[i].Filepath : i \in 1..Len(result.entries) }
              = { Abs(p) : p \in Survivors(extractDirOf(result.archive)) }
    /\ C2Case =>
          result.entries =
              << [Filename |-> sReport \o Dot \o sPdf,
                  Filepath |-> Abs(RootDir \o << << "a" >>, sReport \o Dot \o sPdf >>),
                  SourceArchiveName |-> << "a" >> \o sZip,
                  SourceArchivePath |-> Abs(C2Archive)] >>

\* --------------------------------------------------------------------------
\* C9
\* --------------------------------------------------------------------------
\* C9: no file path is in more than one row of the manifest, in the
\* accumulated entries as in the written file
C9_OneRowPerFile ==
    /\ \A i, j \in 1..Len(manifestEntries) :
          i # j => manifestEntries[i].Filepath # manifestEntries[j].Filepath
    /\ csv # NoFile =>
          \A i, j \in 2..Len(csv) : i # j => csv[i][2] # csv[j][2]

\* --------------------------------------------------------------------------
\* C10
\* --------------------------------------------------------------------------
\* when the call began, the extraction directory was a directory with a
\* top-level entry that is not a directory
HadTopLevelFile ==
    LET d == extractDirOf(result.archive)
    IN  IsDir(before, d) /\ \E e \in Entries(before, d) : IsFile(before, e)

\* when the call began, the extraction directory held subdirectories only
HadOnlySubdirs ==
    LET d == extractDirOf(result.archive)
    IN  /\ IsDir(before, d)
        /\ Entries(before, d) # {}
        /\ \A e \in Entries(before, d) : IsDir(before, e)

\* C10: processArchive skips the extractor and goes to cleaning and manifest
\* collection exactly when the extraction directory had a top-level file; a
\* directory with nothing but subdirectories gets the extractor run into it
C10_SkipIffTopLevelFile ==
    Processed =>
        /\ (~result.extracted /\ result.cleaned) <=> HadTopLevelFile
        /\ HadTopLevelFile =>
              result.entries = collectEntries(fs, extractDirOf(result.archive), result.archive)
        /\ HadOnlySubdirs => result.extracted

\* the extractor has been run into a directory that held only a subdirectory
C10_Witness == Processed /\ HadOnlySubdirs /\ result.extracted

\* --------------------------------------------------------------------------
\* C7
\* --------------------------------------------------------------------------
Moves == 1..Len(result.moved)
From(i) == result.moved[i][1]
To(i) == result.moved[i][2]

\* the k-th name moveToRemove tries for a file: name.ext, name_1.ext, ...
Candidate(p, k) ==
    Append(Append(Dir(p), RemoveName),
           IF k = 0 THEN Base(p)
           ELSE Stem(p) \o << "_" >> \o Itoa(k) \o Ext(p))

\* the file the i-th call put into `.remove` has not been moved on since
Stays(i) == \A j \in Moves : j > i => From(j) # To(i)

\* the number of earlier calls made for the same path
Earlier(i) == Cardinality({ j \in Moves : j < i /\ From(j) = From(i) })

\* no name that moveToRemove may try for p is or was held in the `.remove`
\* directory by a file that the calls for p did not put there
Undisturbed(p) ==
    /\ \A j \in Moves : Dir(From(j)) # Append(Dir(p), RemoveName)
    /\ \A k \in 0..MaxMoves :
          IsFile(fs, Candidate(p, k)) =>
              \E j \in Moves : From(j) = p /\ To(j) = Candidate(p, k)

\* C7: the files of a sequence of moveToRemove calls that would get the same
\* name in one `.remove` directory are all there under distinct names, each
\* under the first free one of name.ext, name_1.ext, name_2.ext, ..., and
\* no file that was in `.remove` is overwritten
C7_DistinctNames ==
    pc = "move" =>
        /\ \A i, j \in Moves :
              (i # j /\ From(i) = From(j) /\ Stays(i) /\ Stays(j)) => To(i) # To(j)
        /\ \A i \in Moves :
              /\ Dir(To(i)) = Append(Dir(From(i)), RemoveName)
              /\ Stays(i) => (IsFile(fs, To(i)) /\ fs.files[To(i)] = result.content[i])
              /\ Undisturbed(From(i)) => To(i) = Candidate(From(i), Earlier(i))
        /\ Len(result.moved) > 0 =>
              LET n == Len(result.moved)
                  free == { k \in 0..(MaxMoves + MaxFiles) : ~Exists(before, Candidate(From(n), k)) }
              IN  /\ \E k \in free : To(n) = Candidate(From(n), k) /\ \A l \in free : k <= l
                  /\ \A q \in DOMAIN before.files :
                        q # From(n) => (IsFile(fs, q) /\ fs.files[q] = before.files[q])

\* three calls for one path have put three files into `.remove`, as
\* name.ext, name_1.ext and name_2.ext
C7_Witness ==
    /\ pc = "move"
    /\ \E i, j, k \in Moves :
          /\ i < j /\ j < k
          /\ From(i) = From(j) /\ From(j) = From(k)
          /\ To(i) = Candidate(From(i), 0)
          /\ To(j) = Candidate(From(i), 1)
          /\ To(k) = Candidate(From(i), 2)
          /\ Cardinality({ fs.files[To(i)], fs.files[To(j)], fs.files[To(k)] }) = 3

\* --------------------------------------------------------------------------
\* C11
\* --------------------------------------------------------------------------
\* the extractor was run for the archive and returned an error
ExtractFailed == Processed /\ result.extracted /\ result.path \in { "recovered", "failed" }

\* the extraction directory as the failed extractor left it has a top-level
\* entry that is a regular file
MidTopLevelFile ==
    LET d == extractDirOf(result.archive)
    IN  IsDir(result.mid, d) /\ \E e \in Entries(result.mid, d) : IsFile(result.mid, e)

\* the regular files under the extraction directory
FilesUnder(f, d) == { p \in DOMAIN f.files : IsUnder(p, d) }

\* C11: after an extractor error processArchive calls cleanDirectory and
\* returns one entry per file left under the extraction directory exactly
\* when that directory has a top-level file after the failed extraction;
\* otherwise it returns no entry and the tree is as the extractor left it
C11_FailedExtraction ==
    ExtractFailed =>
        /\ result.cleaned <=> MidTopLevelFile
        /\ result.cleaned =>
              /\ { result.entries[i].Filepath : i \in 1..Len(result.entries) }
                    = { Abs(p) : p \in FilesUnder(fs, extractDirOf(result.archive)) }
              /\ Len(result.entries) = Cardinality(FilesUnder(fs, extractDirOf(result.archive)))
        /\ ~result.cleaned =>
              /\ result.entries = << >>
              /\ result.moved = << >>
              /\ fs = result.mid

\* an extractor failed after it had written a top-level file into a
\* directory that had none, and the directory was cleaned and listed
C11_Witness ==
    /\ ExtractFailed
    /\ ~HadTopLevelFile
    /\ result.failAt >= 1
    /\ result.cleaned
    /\ Len(result.entries) > 0
    /\ Len(result.moved) > 0

\* --------------------------------------------------------------------------
\* C12
\* --------------------------------------------------------------------------
\* the run has ended with a fatal error
Fatal == pc = "fatal" /\ result.op = "fatal"

\* no processArchive call has been made and the tree is as the run found it
NothingProcessed ==
    /\ result.prev = NoResult
    /\ manifestEntries = << >>
    /\ fs = before

\* C12 as claimed: in a run that ends with a fatal error, whatever its cause,
\* no archive has been extracted and no directory has been cleaned
C12_FatalBeforeProcessing == Fatal => NothingProcessed

\* C12 as amended: a fatal error on the log file or on the configuration ends
\* the run before the scan, with nothing extracted and nothing cleaned; a
\* manifest file that cannot be created ends the run after every discovered
\* archive has been processed, and leaves no manifest file
C12_FatalByCause ==
    Fatal =>
        /\ result.cause \in { "log", "config" } =>
              /\ NothingProcessed
              /\ archives = << >>
              /\ idx = 0
        /\ result.cause = "manifest" =>
              /\ Len(archives) > 0
              /\ result.prev.op = "archive"
              /\ [i \in 1..Len(result.prev.done) |-> result.prev.done[i].archive] = archives
              /\ csv = NoFile
        /\ result.cause \in { "log", "config", "manifest" }

\* the configuration could not be loaded in a run on a root that holds an
\* archive
C12_Witness ==
    /\ Fatal
    /\ result.cause = "config"
    /\ \E p \in DOMAIN fs.files : ToLower(Ext(p)) \in ARCHIVE_EXTS

\* --------------------------------------------------------------------------
\* C13
\* --------------------------------------------------------------------------
\* the archives passed to processArchive so far, in call order
DoneArchives ==
    IF result.op = "archive"
    THEN [i \in 1..Len(result.done) |-> result.done[i].archive]
    ELSE << >>

\* a regular file named `.remove` lies under the extraction directory of the
\* last archive: moveToRemove could not create its directory there
RelocationFailed ==
    \E p \in DOMAIN fs.files :
        /\ Base(p) = RemoveName
        /\ IsUnder(p, extractDirOf(result.archive))
        /\ \E q \in DOMAIN fs.files : Dir(q) = Dir(p) /\ q # p /\ ~KeepEligible(q)

C14_ArchivesKept ==
    \A i \in 1..Len(archives) :
        /\ IsFile(fs, archives[i])
        /\ fs.files[archives[i]] = archives[i]

\* --------------------------------------------------------------------------
\* C15
\* --------------------------------------------------------------------------
\* C15: while an archive the scan has discovered is still to be processed,
\* and before the scan, no manifest file exists; a manifest file holds the
\* entries of every discovered archive
C15_NoManifestBeforeEnd ==
    /\ (pc \in { "start", "config", "scan" } \/ (pc = "loop" /\ idx <= Len(archives))) =>
          csv = NoFile
    /\ Len(DoneArchives) < Len(archives) => csv = NoFile
    /\ csv # NoFile =>
          /\ DoneArchives = archives
          /\ csv = CsvRows(manifestEntries)

\* the manifest has been written at the end of a run over two archives
C15_Witness ==
    /\ csv # NoFile
    /\ Len(archives) = 2
    /\ DoneArchives = archives
    /\ Len(csv) > 1

\* --------------------------------------------------------------------------
\* C16
\* --------------------------------------------------------------------------
\* the classifier has just been applied to result.ext
Classified == result.op = "classify"

\* the extension equals a configured KeepExtensions entry when letter case
\* and the leading dot of the extension are ignored
MatchesKeep(ext) ==
    \E i \in 1..Len(config.KeepExtensions) :
        ToLower(config.KeepExtensions[i]) = ToLower(TrimPrefix(ext, Dot))

\* C16: isKeepExtension reports true for every extension that equals a
\* configured KeepExtensions entry up to letter case and its leading dot
C16_KeepIgnoresCase ==
    Classified => (MatchesKeep(result.ext) => result.keep)

\* --------------------------------------------------------------------------
\* C17
\* --------------------------------------------------------------------------
\* the extension equals no Priority entry, letter case ignored
AbsentFromPriority(ext) ==
    \A i \in 1..Len(config.Priority) :
        ToLower(Dot \o config.Priority[i]) # ToLower(ext)

\* C17: getFilePriority returns a rank in 0..len(Priority) for every
\* extension string, len(Priority) for one absent from Priority, and gives
\* an earlier Priority entry a lower rank than a later one
C17_RankTotalAndOrdered ==
    Classified =>
        /\ result.rank \in 0..Len(config.Priority)
        /\ AbsentFromPriority(result.ext) => result.rank = Len(config.Priority)
        /\ \A i, j \in 1..Len(config.Priority) :
              i < j => result.ranks[i] < result.ranks[j]

\* --------------------------------------------------------------------------
\* C18
\* --------------------------------------------------------------------------
\* the members of the group stored under the key k
Members(k) == { result.groups[k][i] : i \in 1..Len(result.groups[k]) }

\* C18: two keep-eligible files with the same name in two different
\* directories are never members of one group, and when neither has another
\* keep-eligible file of its base name beside it, both stay at their paths
C18_SameNameApart ==
    Cleaned =>
        \A p, q \in FilesBefore :
            (Dir(p) # Dir(q) /\ Base(p) = Base(q) /\ KeepEligible(p) /\ KeepEligible(q)) =>
                /\ \A k \in DOMAIN result.groups : ~({ p, q } \subseteq Members(k))
                /\ (GroupOf(p) = {p} /\ GroupOf(q) = {q}) =>
                      (AtOriginalPath(p) /\ AtOriginalPath(q))

\* --------------------------------------------------------------------------
\* C19
\* --------------------------------------------------------------------------
\* the directories that had no entry when the directory pass began
EmptyAtPass == { d \in result.relocated.dirs : Entries(result.relocated, d) = {} }

\* C19: the directory pass of cleanDirectory begins when every relocation is
\* done and moves no file; every directory other than the root that has no
\* entry then is deleted, and the root is never deleted
C19_DirectoryPass ==
    Cleaned =>
        /\ \A i \in 1..Len(result.moved) :
              /\ ~IsFile(result.relocated, result.moved[i][1])
              /\ \E q \in DOMAIN result.relocated.files :
                    result.relocated.files[q] = before.files[result.moved[i][1]]
        /\ fs.files = result.relocated.files
        /\ \A d \in EmptyAtPass : d # root => ~IsDir(fs, d)
        /\ IsDir(fs, root)

\* the pass has deleted a directory and left the root, which has no entry
C19_Witness ==
    /\ Cleaned
    /\ \E d \in EmptyAtPass : d # root /\ ~IsDir(fs, d)
    /\ IsDir(fs, root)
    /\ Entries(fs, root) = {}

\* --------------------------------------------------------------------------
\* C20
\* --------------------------------------------------------------------------
\* the archive the i-th accumulated entry comes from
Source(i) == manifestEntries[i].SourceArchivePath

\* the position of an archive in the discovery order
Position(src) == CHOOSE n \in 1..Len(archives) : Abs(archives[n]) = src

\* C20: the archives are passed to processArchive one by one in discovery
\* order; the entries of the last call are the end of the accumulated
\* sequence and list the tree as that call left it; the entries of one
\* archive are contiguous in the sequence and the archives follow each other
\* in discovery order
C20_OneAtATime ==
    /\ DoneArchives = SubSeq(archives, 1, Len(DoneArchives))
    /\ pc = "loop" => Len(DoneArchives) = idx - 1
    /\ Processed =>
          /\ Len(result.entries) <= Len(manifestEntries)
          /\ SubSeq(manifestEntries, Len(manifestEntries) - Len(result.entries) + 1,
                    Len(manifestEntries)) = result.entries
          /\ result.cleaned =>
                result.entries = collectEntries(fs, extractDirOf(result.archive), result.archive)
    /\ \A i, k \in 1..Len(manifestEntries) :
          /\ (i < k /\ Source(i) = Source(k)) =>
                \A j \in i..k : Source(j) = Source(i)
          /\ i < k => Position(Source(i)) <= Position(Source(k))

\* two archives have been processed and each has two entries or more in the
\* accumulated sequence
C20_Witness ==
    /\ pc = "write"
    /\ Len(archives) = 2
    /\ \A n \in 1..2 :
          Cardinality({ i \in 1..Len(manifestEntries) : Source(i) = Abs(archives[n]) }) >= 2

\* --------------------------------------------------------------------------
\* C21
\* --------------------------------------------------------------------------
\* the sort of a group has just ended
Sorted == result.op = "sort"

\* the place of a file in the group as the directory walk filled it
WalkPlace(p) == CHOOSE i \in 1..Len(result.files) : result.files[i] = p

\* C21: the priority sort of a group is stable: two members with the same
\* getFilePriority rank are, after the sort, in the order in which the
\* directory walk met them
C21_SortIsStable ==
    Sorted =>
        \A i, j \in 1..Len(result.sorted) :
            (/\ i < j
             /\ Rank(result.sorted[i]) = Rank(result.sorted[j]))
                => WalkPlace(result.sorted[i]) < WalkPlace(result.sorted[j])

\* --------------------------------------------------------------------------
\* C22
\* --------------------------------------------------------------------------
\* the goroutines started so far
Goroutines == 1..Len(workers)

\* goroutine w is inside processArchive
Inside(w) == workers[w].at \in { "process", "send", "return" }

\* the goroutines of ISO archives
IsoGoroutines == { w \in Goroutines : IsIsoArchive(archives[w]) }

\* C22: in the concurrent driver at most 2 ISO archives are inside
\* processArchive at a time; a zip or rar archive never waits for the ISO
\* semaphore and never holds a slot; the slots taken are those of the ISO
\* goroutines between their acquire and their release, the release is never
\* made to wait, and a goroutine that has ended holds no slot
C22_IsoSemaphore ==
    /\ Cardinality({ w \in IsoGoroutines : Inside(w) }) <= 2
    /\ \A w \in Goroutines \ IsoGoroutines :
          workers[w].at \notin { "acquire", "release" } /\ ~workers[w].held
    /\ isoSemaphore = Cardinality({ w \in Goroutines : workers[w].held })
    /\ \A w \in Goroutines :
          /\ workers[w].held <=> (w \in IsoGoroutines /\ (Inside(w) \/ workers[w].at = "release"))
          /\ workers[w].at = "release" => isoSemaphore > 0
          /\ workers[w].at = "done" => ~workers[w].held

\* two ISO archives are inside processArchive and a third one waits for a
\* slot
C22_Witness ==
    /\ Cardinality({ w \in IsoGoroutines : Inside(w) }) = 2
    /\ \E w \in IsoGoroutines : workers[w].at = "acquire"

\* --------------------------------------------------------------------------
\* C23
\* --------------------------------------------------------------------------
\* containsGarbled has just returned
GarbleChecked == result.op = "garbled"

\* the share of Han characters of the string is above 80%
MostlyHan(s) == 5 * Cardinality({ i \in 1..Len(s) : Runes[s[i]].han }) > 4 * Len(s)

\* C23: the ratio rule of containsGarbled reports a string exactly when it
\* has more than 10 characters and more than 80% of them are Han characters;
\* a string of 10 characters or fewer without a known pattern is not
\* reported as garbled
C23_RatioRule ==
    GarbleChecked =>
        /\ result.ratio <=> (Len(result.s) > 10 /\ MostlyHan(result.s))
        /\ (Len(result.s) <= 10 /\ ~result.pattern) => ~result.garbled

\* --------------------------------------------------------------------------
\* C24
\* --------------------------------------------------------------------------
\* goroutine w is blocked in manifestChan <- entry: the buffer is full
BlockedSending(w) ==
    workers[w].at = "send" /\ Len(manifestChan.buf) = MaxChan

\* main has not yet passed wg.Wait, so nothing receives from manifestChan
NotYetDraining == pc \in { "spawn", "wait" }

\* C24: in the concurrent driver no goroutine is blocked sending on the full
\* manifestChan while main still waits for the goroutines, a block that
\* would never end: every goroutine finishes, wg.Wait returns and the
\* manifest is written
C24_NoWorkerBlocksForever ==
    ~(NotYetDraining /\ \E w \in 1..Len(workers) : BlockedSending(w))

\* --------------------------------------------------------------------------
\* C25
\* --------------------------------------------------------------------------
\* the file paths cleanDirectory leaves when it ranges over the groups of the
\* tree f in the given order
PathsLeft(f, order) == DOMAIN cleanDirectory(f, root, order).fs.files

\* C25: the tree left by cleanDirectory does not depend on the order in which
\* the groups are processed: every order of the map iteration, from the tree
\* the call began with, leaves the file paths that the call has left
C25_OrderIndependent ==
    Cleaned =>
        \A order \in Orders(DOMAIN fileGroupsOf(before, root)) :
            PathsLeft(before, order) = DOMAIN fs.files

\* --------------------------------------------------------------------------
\* C26
\* --------------------------------------------------------------------------
\* C26: all the members of a group of cleanDirectory lie in one directory:
\* no group key is given to two files of different directories, whatever
\* their names, a name that is only an extension included
C26_GroupInOneDirectory ==
    Cleaned =>
        \A k \in DOMAIN result.groups :
            \A i, j \in 1..Len(result.groups[k]) :
                Dir(result.groups[k][i]) = Dir(result.groups[k][j])

\* --------------------------------------------------------------------------
\* C27
\* --------------------------------------------------------------------------
\* C27: when cleanDirectory returns, no directory under the root other than
\* the root has no entry, also where directories held nothing but
\* directories without entries
C27_NoEmptyDirectoryLeft ==
    Cleaned =>
        \A d \in fs.dirs : IsUnder(d, root) => Entries(fs, d) # {}

\* --------------------------------------------------------------------------
\* C28
\* --------------------------------------------------------------------------
\* an extractor has just returned
ExtractorRan == result.op = "extract"

\* the paths the extractor has written: files that are new or have a new
\* content, directories that are new
Written ==
    { p \in DOMAIN fs.files : p \notin DOMAIN before.files \/ fs.files[p] # before.files[p] }
        \cup (fs.dirs \ before.dirs)

\* C28: extractZip and extractRar write only inside the destination
\* directory: whatever the entry names are, names with `..` elements and
\* absolute names included, every file and directory written is the
\* extraction directory or lies under it
C28_ExtractionStaysInside ==
    ExtractorRan =>
        \A p \in Written : p = result.dest \/ IsUnder(p, result.dest)

\* --------------------------------------------------------------------------
\* C29
\* --------------------------------------------------------------------------
\* the entries the `.remove` directory of the file had when moveToRemove was
\* called
RemoveEntries == Entries(before, Join(Dir(result.file), RemoveName))

\* C29: the probing loop of moveToRemove ends after finitely many steps,
\* whatever is in the `.remove` directory and whatever os.Stat answers: every
\* name it finds taken is another entry of the directory, so it never makes
\* more tests than the directory has entries, plus one
C29_ProbingEnds ==
    result.op = "probe" => result.tests <= Cardinality(RemoveEntries) + 1

\* --------------------------------------------------------------------------
\* C30
\* --------------------------------------------------------------------------
\* C30: the ProcessStats that cleanDirectory returns has TotalFiles =
\* KeptFiles + RemovedFiles, none of the three counts negative, Success true
\* and no error message, for every tree and whether or not the relocations
\* succeed
C30_StatsAddUp ==
    Cleaned =>
        /\ result.stats.TotalFiles = result.stats.KeptFiles + result.stats.RemovedFiles
        /\ result.stats.TotalFiles >= 0
        /\ result.stats.KeptFiles >= 0
        /\ result.stats.RemovedFiles >= 0
        /\ result.stats.Success
        /\ result.stats.ErrorMsg = ""

\* a call in which a group member was moved, a file that is not kept was
\* counted, and a relocation failed
C30_Witness ==
    /\ Cleaned
    /\ result.moved # << >>
    /\ result.stats.RemovedFiles >= 1
    /\ \E p \in FilesBefore : ~KeepEligible(p) /\ RemoveDirBlocked(p) /\ AtOriginalPath(p)
    /\ \E k \in DOMAIN result.groups : Len(result.groups[k]) >= 2

====
